---- MODULE Spec2Model ----
(***************************************************************************)
(* Retainr: the failed-payment lifecycle of src/server/routes.ts and the   *)
(* subscription webhook of src/server/index.ts.                            *)
(*                                                                         *)
(* Every request is handled by an async Express handler.  Between two      *)
(* awaits the handler runs without interruption; at an await any other     *)
(* request may run.  One action of this module is one such segment: the    *)
(* external operation the handler was waiting for (a database statement, a *)
(* processor call, the mail API) together with the synchronous code that   *)
(* follows it, up to the next await or the response.                       *)
(***************************************************************************)
EXTENDS Naturals, Sequences, FiniteSets

\* ---------------------------------------------------------------- bounds
NumProcs == 2   \* requests that can be in flight at once
MaxReqs == 3    \* requests received in one behaviour
MaxTime == 2    \* clock values new Date() can return

Procs == 1..NumProcs

\* The largest amount (in minor units) of a payment whose mail is rendered.
MaxAmount == 5000

\* ------------------------------------------------------------- the inputs
PaymentIntents == {"pi_1", "pi_2"}
Signatures == {"missing", "invalid", "valid"}
\* on_behalf_of of the event: absent, a connected account, an unknown one
Accounts == {"none", "acct_1", "acct_2", "acct_x"}
EventTypes == {"payment_intent.payment_failed", "payment_intent.succeeded",
               "checkout.session.completed", "charge.refunded"}
\* what stripe.customers.retrieve can answer
CustomerAnswers == {"throws", "deleted", "noemail", "email"}

VARIABLES
  users,           \* table users: id -> row
  emailTemplates,  \* table email_templates: a set of rows
  failedPayments,  \* table failed_payments: row i has the serial id i
  dunningLogs,     \* table dunning_logs: row i has the serial id i
  sent,            \* the calls of the Notification Sender, in order
  webhookSecret,   \* whether STRIPE_WEBHOOK_SECRET is set
  now,             \* the last value new Date() returned
  pc,              \* per request slot: the await the handler is parked at
  req,             \* per request slot: the request
  loc,             \* per request slot: the handler's local variables
  resp,            \* per request slot: the HTTP status sent, 0 when none yet
  nreq,            \* requests received so far
  tracked          \* per payment intent: payment_failed deliveries whose
                   \* insert or attemptCount update was executed

vars == <<users, emailTemplates, failedPayments, dunningLogs, sent,
          webhookSecret, now, pc, req, loc, resp, nreq, tracked>>

tables == <<users, emailTemplates, failedPayments, dunningLogs>>

\* ------------------------------------------------------------ the schema
NoRow == [id |-> 0, attemptCount |-> 0, status |-> "none"]

NoReq == [route |-> "none", sig |-> "missing", type |-> "none", pi |-> "none",
          acct |-> "none", receipt |-> FALSE, customer |-> FALSE, id |-> 0,
          userId |-> 0, email |-> "none", valid |-> FALSE]

\* calls: the processor API calls the handler has issued, in order.
NoLoc == [user |-> 0, email |-> FALSE, row |-> NoRow, fp |-> 0, date |-> 0,
          error |-> "none", calls |-> <<>>]

UserIds == {1, 2}

InitUsers ==
  [u \in UserIds |->
     [stripeAccountId |-> IF u = 1 THEN "acct_1" ELSE "acct_2",
      subscriptionStatus |-> "trial"]]

\* User 1 has an enabled first_failure template.  User 2 has a disabled one
\* and an enabled template of another type.
InitTemplates ==
  {[userId |-> 1, type |-> "first_failure", isEnabled |-> TRUE],
   [userId |-> 2, type |-> "first_failure", isEnabled |-> FALSE],
   [userId |-> 2, type |-> "second_failure", isEnabled |-> TRUE]}

Init ==
  /\ users = InitUsers
  /\ emailTemplates = InitTemplates
  /\ failedPayments = <<>>
  /\ dunningLogs = <<>>
  /\ sent = <<>>
  /\ webhookSecret \in BOOLEAN
  /\ now = 1
  /\ pc = [p \in Procs |-> "idle"]
  /\ req = [p \in Procs |-> NoReq]
  /\ loc = [p \in Procs |-> NoLoc]
  /\ resp = [p \in Procs |-> 0]
  /\ nreq = 0
  /\ tracked = [i \in PaymentIntents |-> 0]

\* ---------------------------------------------------------------- helpers
\* The ids of the failed_payments rows of one payment intent.
RowsOfIntent(pi) ==
  {i \in 1..Len(failedPayments) : failedPayments[i].stripePaymentIntentId = pi}

\* What a handler keeps of a row it read.
Snapshot(i) ==
  IF i \in 1..Len(failedPayments)
    THEN [id |-> i, attemptCount |-> failedPayments[i].attemptCount,
          status |-> failedPayments[i].status]
    ELSE NoRow

\* A lookup that forgets the where condition.
AnyUser(acct) == UserIds

\* db.query.users.findFirst({ where: eq(users.stripeAccountId, acct) })
FindUserByAccount(acct) ==
  {u \in UserIds : users[u].stripeAccountId = acct}

\* A lookup that forgets the isEnabled condition.
AnyFirstFailureTemplate(userId) ==
  {t \in emailTemplates : t.userId = userId /\ t.type = "first_failure"}

\* db.query.emailTemplates.findFirst: userId, type 'first_failure', enabled
EnabledTemplates(userId) ==
  {t \in emailTemplates :
     t.userId = userId /\ t.type = "first_failure" /\ t.isEnabled}

\* The handler answers: status code, and the error it caught if any.
Respond(p, code, err) ==
  /\ pc' = [pc EXCEPT ![p] = "done"]
  /\ resp' = [resp EXCEPT ![p] = code]
  /\ loc' = [loc EXCEPT ![p].error = err]

RespondWith(p, code, err, l) ==
  /\ pc' = [pc EXCEPT ![p] = "done"]
  /\ resp' = [resp EXCEPT ![p] = code]
  /\ loc' = [loc EXCEPT ![p] = [l EXCEPT !.error = err]]

\* A new request parks at its first await: fresh locals, nothing sent yet.
Park(p, label) ==
  /\ pc' = [pc EXCEPT ![p] = label]
  /\ loc' = [loc EXCEPT ![p] = NoLoc]
  /\ resp' = [resp EXCEPT ![p] = 0]

\* A handler that has answered holds nothing another handler can read: its
\* slot is freed (Release) before anything else runs.
Quiet == \A q \in Procs : pc[q] # "done"

\* The handler in slot p resumes from the await it is parked at.
At(p, label) == Quiet /\ pc[p] = label

\* A slot takes a new request when it is free.
Free(p) == At(p, "idle") /\ nreq < MaxReqs

Accept(p, r) ==
  /\ req' = [req EXCEPT ![p] = r]
  /\ nreq' = nreq + 1

\* The handler goes on to its next await with the locals l.
GotoWith(p, label, l) ==
  /\ pc' = [pc EXCEPT ![p] = label]
  /\ loc' = [loc EXCEPT ![p] = l]
  /\ UNCHANGED resp

\* new Date(): the clock never goes back.
Dates == now..MaxTime

\* --------------------------------------------- POST /api/stripe/webhook
\* The events the processor (or anybody else) can post.  Only a
\* payment_intent event carries a payment intent, and only a payment_failed
\* event is looked at for on_behalf_of, receipt_email and customer.
WebhookRequests ==
  {r \in [route : {"webhook"}, sig : Signatures, type : EventTypes,
          pi : PaymentIntents \cup {"none"}, acct : Accounts,
          receipt : BOOLEAN, customer : BOOLEAN, id : {0}, userId : {0}] :
     /\ (r.pi # "none") <=>
          r.type \in {"payment_intent.payment_failed", "payment_intent.succeeded"}
     /\ r.type # "payment_intent.payment_failed" =>
          r.acct = "none" /\ ~r.receipt /\ ~r.customer
     \* an event the handler leaves before it reads these fields is posted
     \* with one value of them
     /\ r.type = "payment_intent.payment_failed"
           /\ (r.sig # "valid" \/ r.acct \in {"none", "acct_x"}) =>
          r.pi = "pi_1" /\ r.receipt /\ r.customer
     /\ r.type = "payment_intent.payment_failed" /\ r.sig # "valid" =>
          r.acct = "acct_1"
     /\ r.type = "payment_intent.succeeded" /\ r.sig # "valid" =>
          r.pi = "pi_1"}

\* A handler that tests only that the header is there.
SignaturePresent(r) == r.sig # "missing" /\ webhookSecret

\* stripe.webhooks.constructEvent behind the header and secret test.
Verified(r) == r.sig = "valid" /\ webhookSecret

\* The synchronous head of the handler: signature check, dispatch on the
\* event type, and handlePaymentFailed up to its first await.
WebhookReceive(p) ==
  /\ Free(p)
  /\ \E r \in WebhookRequests :
       /\ Accept(p, r)
       /\ IF ~Verified(r)
            THEN RespondWith(p, 400, "none", NoLoc)
          ELSE IF r.type = "payment_intent.payment_failed"
            THEN IF r.acct = "none"
                   THEN RespondWith(p, 200, "none", NoLoc)
                   ELSE Park(p, "findUser")
          ELSE IF r.type = "payment_intent.succeeded"
            THEN Park(p, "succFind")
          ELSE RespondWith(p, 200, "none", NoLoc)
  /\ UNCHANGED <<tables, sent, webhookSecret, now, tracked>>

\* A catch block that logs the error and acknowledges the event.
WebhookSwallow(p, err) == Respond(p, 200, err)

\* catch (error) { res.status(500).send(...) }
WebhookCatch(p, err) == Respond(p, 500, err)

\* handlePaymentFailed: users.findFirst returned.
FindUser(p) ==
  /\ At(p, "findUser")
  /\ \/ WebhookCatch(p, "db")
     \/ /\ FindUserByAccount(req[p].acct) = {}
        /\ Respond(p, 200, "none")
     \/ \E u \in FindUserByAccount(req[p].acct) :
          IF req[p].receipt
            THEN GotoWith(p, "findExisting",
                          [loc[p] EXCEPT !.user = u, !.email = TRUE])
          ELSE IF req[p].customer
            THEN GotoWith(p, "retrieveCustomer",
                          [loc[p] EXCEPT !.user = u,
                                         !.calls = <<"customers.retrieve">>])
          ELSE RespondWith(p, 200, "none", [loc[p] EXCEPT !.user = u])
  /\ UNCHANGED <<tables, sent, webhookSecret, now, req, nreq, tracked>>

\* handlePaymentFailed: stripe.customers.retrieve returned.
RetrieveCustomer(p) ==
  /\ At(p, "retrieveCustomer")
  /\ \E a \in CustomerAnswers :
       IF a = "throws" THEN WebhookCatch(p, "stripe")
       ELSE IF a = "email"
         THEN GotoWith(p, "findExisting", [loc[p] EXCEPT !.email = TRUE])
       ELSE Respond(p, 200, "none")
  /\ UNCHANGED <<tables, sent, webhookSecret, now, req, nreq, tracked>>

\* A lookup that counts a row as tracked only once its log is written: a
\* row without a log is inserted and notified again.
FindExistingLogged(p) ==
  /\ At(p, "findExisting")
  /\ LET logged == {i \in RowsOfIntent(req[p].pi) :
                      \E j \in 1..Len(dunningLogs) :
                        dunningLogs[j].failedPaymentId = i}
     IN  \/ WebhookCatch(p, "db")
         \/ /\ logged = {}
            /\ GotoWith(p, "insertFailed", loc[p])
         \/ \E i \in logged :
              GotoWith(p, "updateAttempt", [loc[p] EXCEPT !.row = Snapshot(i)])
  /\ UNCHANGED <<tables, sent, webhookSecret, now, req, nreq, tracked>>

\* handlePaymentFailed: failedPayments.findFirst by payment intent returned.
\* No ORDER BY: any matching row can be the first.
FindExisting(p) ==
  /\ At(p, "findExisting")
  /\ \/ WebhookCatch(p, "db")
     \/ /\ RowsOfIntent(req[p].pi) = {}
        /\ GotoWith(p, "insertFailed", loc[p])
     \/ \E i \in RowsOfIntent(req[p].pi) :
          GotoWith(p, "updateAttempt", [loc[p] EXCEPT !.row = Snapshot(i)])
  /\ UNCHANGED <<tables, sent, webhookSecret, now, req, nreq, tracked>>

\* An update that writes back the count it read.
AttemptCountNotIncremented(existing) == existing.attemptCount

\* The value the update of an existing row sets attempt_count to.
NextAttemptCount(existing) == existing.attemptCount + 1

\* An update of the existing row that goes on to notify the customer again.
UpdateAttemptAndNotify(p) ==
  /\ At(p, "updateAttempt")
  /\ \/ /\ WebhookCatch(p, "db")
        /\ UNCHANGED <<failedPayments, tracked>>
     \/ /\ failedPayments' =
             [failedPayments EXCEPT ![loc[p].row.id].attemptCount =
                                       loc[p].row.attemptCount + 1]
        /\ tracked' = [tracked EXCEPT ![req[p].pi] = @ + 1]
        /\ GotoWith(p, "dunFindPayment", [loc[p] EXCEPT !.fp = loc[p].row.id])
  /\ UNCHANGED <<users, emailTemplates, dunningLogs, sent, webhookSecret, now,
                 req, nreq>>

\* handlePaymentFailed: the update of the existing row ran; return.
UpdateAttempt(p) ==
  /\ At(p, "updateAttempt")
  /\ \/ /\ WebhookCatch(p, "db")
        /\ UNCHANGED <<failedPayments, tracked>>
     \/ /\ failedPayments' =
             [failedPayments EXCEPT ![loc[p].row.id].attemptCount =
                                       NextAttemptCount(loc[p].row)]
        /\ tracked' = [tracked EXCEPT ![req[p].pi] = @ + 1]
        /\ Respond(p, 200, "none")
  /\ UNCHANGED <<users, emailTemplates, dunningLogs, sent, webhookSecret, now,
                 req, nreq>>

\* An insert that leaves attempt_count to the column default.
NewFailedPaymentDefaultCount(userId, pi) ==
  [userId |-> userId, stripePaymentIntentId |-> pi, status |-> "failed",
   attemptCount |-> 0, recoveredAt |-> 0]

\* The row handlePaymentFailed inserts.  The columns kept are the ones a
\* handler reads back; customer_email, amount, currency, failure_reason,
\* next_retry_at and created_at are written here and never change.
NewFailedPayment(userId, pi) ==
  [userId |-> userId, stripePaymentIntentId |-> pi, status |-> "failed",
   attemptCount |-> 1, recoveredAt |-> 0]

\* handlePaymentFailed: the insert ran.  stripe_customer_id is NOT NULL, so
\* the insert of an event without a customer is refused by the database.
InsertFailed(p) ==
  /\ At(p, "insertFailed")
  /\ \/ /\ WebhookCatch(p, "db")
        /\ UNCHANGED <<failedPayments, tracked>>
     \/ /\ req[p].customer
        /\ failedPayments' =
             Append(failedPayments, NewFailedPayment(loc[p].user, req[p].pi))
        /\ tracked' = [tracked EXCEPT ![req[p].pi] = @ + 1]
        /\ GotoWith(p, "dunFindPayment",
                    [loc[p] EXCEPT !.fp = Len(failedPayments) + 1])
  /\ UNCHANGED <<users, emailTemplates, dunningLogs, sent, webhookSecret, now,
                 req, nreq>>

\* sendDunningEmail: failedPayments.findFirst by id returned.
DunFindPayment(p) ==
  /\ At(p, "dunFindPayment")
  /\ \/ WebhookCatch(p, "db")
     \/ IF loc[p].fp \in 1..Len(failedPayments)
          THEN GotoWith(p, "dunFindTemplate",
                        [loc[p] EXCEPT !.row = Snapshot(loc[p].fp)])
          ELSE Respond(p, 200, "none")
  /\ UNCHANGED <<tables, sent, webhookSecret, now, req, nreq, tracked>>

\* sendDunningEmail: emailTemplates.findFirst returned.
DunFindTemplate(p) ==
  /\ At(p, "dunFindTemplate")
  /\ \/ WebhookCatch(p, "db")
     \/ IF EnabledTemplates(loc[p].user) = {}
          THEN Respond(p, 200, "none")
          ELSE GotoWith(p, "sendEmail", loc[p])
  /\ UNCHANGED <<tables, sent, webhookSecret, now, req, nreq, tracked>>

\* A sender without its try/catch: a failed delivery throws.
SendEmailThrows(p) ==
  /\ At(p, "sendEmail")
  /\ \E delivered \in BOOLEAN :
       /\ sent' = Append(sent, [failedPaymentId |-> loc[p].row.id,
                                delivered |-> delivered])
       /\ IF delivered THEN GotoWith(p, "insertLog", loc[p])
          ELSE WebhookCatch(p, "mail")
  /\ UNCHANGED <<tables, webhookSecret, now, req, nreq, tracked>>

\* email.ts sendDunningEmail: the mail API accepted the mail or failed; the
\* sender returns true or false and never throws.
SendEmail(p) ==
  /\ At(p, "sendEmail")
  /\ \E delivered \in BOOLEAN :
       sent' = Append(sent, [failedPaymentId |-> loc[p].row.id,
                             delivered |-> delivered])
  /\ GotoWith(p, "insertLog", loc[p])
  /\ UNCHANGED <<tables, webhookSecret, now, req, nreq, tracked>>

\* sendDunningEmail: the insert into dunning_logs ran; return.
InsertLog(p) ==
  /\ At(p, "insertLog")
  /\ \/ /\ WebhookCatch(p, "db")
        /\ UNCHANGED dunningLogs
     \/ /\ dunningLogs' =
             Append(dunningLogs, [failedPaymentId |-> loc[p].row.id,
                                  emailTemplate |-> "first_failure",
                                  status |-> "sent"])
        /\ Respond(p, 200, "none")
  /\ UNCHANGED <<users, emailTemplates, failedPayments, sent, webhookSecret,
                 now, req, nreq, tracked>>

\* A handler that tests only that the row is there.
RecoverWhenFound(failedPayment) == failedPayment.id # 0

\* Whether handlePaymentSucceeded updates the row it read.
ShouldRecover(failedPayment) == failedPayment.status = "failed"

\* handlePaymentSucceeded: failedPayments.findFirst returned; new Date() is
\* evaluated when the update is issued.
SuccFind(p) ==
  /\ At(p, "succFind")
  /\ \/ /\ WebhookCatch(p, "db")
        /\ UNCHANGED now
     \/ /\ RowsOfIntent(req[p].pi) = {}
        /\ Respond(p, 200, "none")
        /\ UNCHANGED now
     \/ \E i \in RowsOfIntent(req[p].pi) :
          IF ShouldRecover(Snapshot(i))
            THEN \E t \in Dates :
                   /\ now' = t
                   /\ GotoWith(p, "succUpdate",
                               [loc[p] EXCEPT !.row = Snapshot(i), !.date = t])
            ELSE /\ RespondWith(p, 200, "none",
                                [loc[p] EXCEPT !.row = Snapshot(i)])
                 /\ UNCHANGED now
  /\ UNCHANGED <<tables, sent, webhookSecret, req, nreq, tracked>>

\* An update that sets the status and leaves recovered_at alone.
MarkStatusOnly(id, date) ==
  failedPayments' = [failedPayments EXCEPT ![id].status = "recovered"]

\* .set({ status: 'recovered', recoveredAt: ... }).where(eq(id, ...))
MarkRecovered(id, date) ==
  failedPayments' =
    [failedPayments EXCEPT ![id].status = "recovered", ![id].recoveredAt = date]

\* handlePaymentSucceeded: the update ran; return.
SuccUpdate(p) ==
  /\ At(p, "succUpdate")
  /\ \/ /\ WebhookCatch(p, "db")
        /\ UNCHANGED failedPayments
     \/ /\ MarkRecovered(loc[p].row.id, loc[p].date)
        /\ Respond(p, 200, "none")
  /\ UNCHANGED <<users, emailTemplates, dunningLogs, sent, webhookSecret, now,
                 req, nreq, tracked>>

\* ------------------------------------ POST /api/public/payment/:id/update
\* parseInt(req.params.id): ids of rows that exist, and ids of none.
RecoveryIds == 1..MaxReqs

RecoveryRequests ==
  {[NoReq EXCEPT !.route = "recover", !.id = i] : i \in RecoveryIds}

RecoverReceive(p) ==
  /\ Free(p)
  /\ \E r \in RecoveryRequests : Accept(p, r)
  /\ Park(p, "recFind")
  /\ UNCHANGED <<tables, sent, webhookSecret, now, tracked>>

\* A check of the id alone: any parsed id counts as found.
AnyPaymentId(id) == id # 0

\* findFirst({ where: eq(failedPayments.id, paymentId) }) and if (!payment):
\* ids are serial, row i has id i.
PaymentFound(id) == id \in 1..Len(failedPayments)

\* failedPayments.findFirst by id returned.  The lookup is outside the try
\* block: when it rejects, the handler's promise rejects.  Express 4 ignores
\* the promise and nothing answers the request; Express 5 passes the error to
\* its default error handler, which answers 500.
RecFind(p) ==
  /\ At(p, "recFind")
  /\ \/ /\ pc' = [pc EXCEPT ![p] = "hung"]
        /\ loc' = [loc EXCEPT ![p].error = "db"]
        /\ UNCHANGED resp
     \/ Respond(p, 500, "db")
     \/ IF PaymentFound(req[p].id)
          THEN GotoWith(p, "recCustUpdate",
                        [loc[p] EXCEPT !.row = Snapshot(req[p].id),
                                       !.calls = <<"customers.update">>])
          ELSE Respond(p, 404, "none")
  /\ UNCHANGED <<tables, sent, webhookSecret, now, req, nreq, tracked>>

\* catch (error) { res.status(500).json(...) }
RecoverCatch(p, err) == Respond(p, 500, err)

\* A handler that writes the row as soon as the customer was updated.
RecoverBeforeConfirm(p) ==
  /\ At(p, "recCustUpdate")
  /\ \/ RecoverCatch(p, "stripe")
     \/ GotoWith(p, "recDbUpdate", [loc[p] EXCEPT !.date = now])
  /\ UNCHANGED <<tables, sent, webhookSecret, now, req, nreq, tracked>>

\* stripe.customers.update returned; stripe.paymentIntents.confirm is issued.
RecCustUpdate(p) ==
  /\ At(p, "recCustUpdate")
  /\ \/ RecoverCatch(p, "stripe")
     \/ GotoWith(p, "recConfirm",
                 [loc[p] EXCEPT !.calls = Append(@, "paymentIntents.confirm")])
  /\ UNCHANGED <<tables, sent, webhookSecret, now, req, nreq, tracked>>

\* stripe.paymentIntents.confirm returned; new Date() is evaluated when the
\* update is issued.
RecConfirm(p) ==
  /\ At(p, "recConfirm")
  /\ \/ /\ RecoverCatch(p, "stripe")
        /\ UNCHANGED now
     \/ \E t \in Dates :
          /\ now' = t
          /\ GotoWith(p, "recDbUpdate", [loc[p] EXCEPT !.date = t])
  /\ UNCHANGED <<tables, sent, webhookSecret, req, nreq, tracked>>

\* The update of the row ran; res.json({ success: true }).
RecDbUpdate(p) ==
  /\ At(p, "recDbUpdate")
  /\ \/ /\ RecoverCatch(p, "db")
        /\ UNCHANGED failedPayments
     \/ /\ MarkRecovered(req[p].id, loc[p].date)
        /\ Respond(p, 200, "none")
  /\ UNCHANGED <<users, emailTemplates, dunningLogs, sent, webhookSecret, now,
                 req, nreq, tracked>>

\* --------------------------- POST /api/stripe/webhook of server/index.ts
\* parseInt(session.metadata?.userId || '0'): missing, a user, nobody.
MetadataUserIds == UserIds \cup {0, 3}

SubscriptionRequests ==
  {r \in [route : {"subhook"}, sig : Signatures, type : EventTypes,
          pi : {"none"}, acct : {"none"}, receipt : {FALSE},
          customer : {FALSE}, id : {0}, userId : MetadataUserIds] :
     /\ r.type # "checkout.session.completed" => r.userId = 0
     /\ r.type = "checkout.session.completed" /\ r.sig # "valid" =>
          r.userId = 1}

SubscriptionReceive(p) ==
  /\ Free(p)
  /\ \E r \in SubscriptionRequests :
       /\ Accept(p, r)
       /\ IF ~Verified(r)
            THEN RespondWith(p, 400, "none", NoLoc)
          ELSE IF r.type = "checkout.session.completed" /\ r.userId # 0
            THEN Park(p, "subUpdate")
          ELSE RespondWith(p, 200, "none", NoLoc)
  /\ UNCHANGED <<tables, sent, webhookSecret, now, tracked>>

\* catch (error) { res.status(500).send(...) } of server/index.ts
SubscriptionCatch(p, err) == Respond(p, 500, err)

\* An update without its where condition: every user is activated.
ActivateEveryUser(p) ==
  /\ At(p, "subUpdate")
  /\ \/ /\ SubscriptionCatch(p, "db")
        /\ UNCHANGED users
     \/ /\ users' = [u \in UserIds |->
                       [users[u] EXCEPT !.subscriptionStatus = "active"]]
        /\ Respond(p, 200, "none")
  /\ UNCHANGED <<emailTemplates, failedPayments, dunningLogs, sent,
                 webhookSecret, now, req, nreq, tracked>>

\* db.update(users).set({ subscriptionStatus: 'active', ... }) ran.
SubscriptionUpdate(p) ==
  /\ At(p, "subUpdate")
  /\ \/ /\ SubscriptionCatch(p, "db")
        /\ UNCHANGED users
     \/ /\ users' = [u \in UserIds |->
                       IF u = req[p].userId
                         THEN [users[u] EXCEPT !.subscriptionStatus = "active"]
                         ELSE users[u]]
        /\ Respond(p, 200, "none")
  /\ UNCHANGED <<emailTemplates, failedPayments, dunningLogs, sent,
                 webhookSecret, now, req, nreq, tracked>>

\* ------------------------------------------------------ the specifications
\* The response has left the process: the slot is free again.
Release(p) ==
  /\ pc[p] = "done"
  /\ pc' = [pc EXCEPT ![p] = "idle"]
  /\ req' = [req EXCEPT ![p] = NoReq]
  /\ loc' = [loc EXCEPT ![p] = NoLoc]
  /\ resp' = [resp EXCEPT ![p] = 0]
  /\ UNCHANGED <<tables, sent, webhookSecret, now, nreq, tracked>>

Next ==
  \E p \in Procs :
    \/ WebhookReceive(p)
    \/ FindUser(p)
    \/ RetrieveCustomer(p)
    \/ FindExisting(p)
    \/ UpdateAttempt(p)
    \/ InsertFailed(p)
    \/ DunFindPayment(p)
    \/ DunFindTemplate(p)
    \/ SendEmail(p)
    \/ InsertLog(p)
    \/ SuccFind(p)
    \/ SuccUpdate(p)
    \/ RecoverReceive(p)
    \/ RecFind(p)
    \/ RecCustUpdate(p)
    \/ RecConfirm(p)
    \/ RecDbUpdate(p)
    \/ SubscriptionReceive(p)
    \/ SubscriptionUpdate(p)
    \/ Release(p)

\* Requests arrive at any time and their handlers interleave at the awaits.
Spec == Init /\ [][Next]_vars

\* No handler of another request is parked at an await.
Alone(p) == \A q \in Procs \ {p} : pc[q] \in {"idle", "hung"}

SeqWebhookReceive(p) == Alone(p) /\ WebhookReceive(p)

SeqRecoverReceive(p) == Alone(p) /\ RecoverReceive(p)

SeqSubscriptionReceive(p) == Alone(p) /\ SubscriptionReceive(p)

NextSeq ==
  \E p \in Procs :
    \/ SeqWebhookReceive(p)
    \/ FindUser(p)
    \/ RetrieveCustomer(p)
    \/ FindExisting(p)
    \/ UpdateAttempt(p)
    \/ InsertFailed(p)
    \/ DunFindPayment(p)
    \/ DunFindTemplate(p)
    \/ SendEmail(p)
    \/ InsertLog(p)
    \/ SuccFind(p)
    \/ SuccUpdate(p)
    \/ SeqRecoverReceive(p)
    \/ RecFind(p)
    \/ RecCustUpdate(p)
    \/ RecConfirm(p)
    \/ RecDbUpdate(p)
    \/ SeqSubscriptionReceive(p)
    \/ SubscriptionUpdate(p)
    \/ Release(p)

\* Requests arrive one after the other: a request is received only when
\* every request before it has been answered (or hangs for good).
SpecSeq == Init /\ [][NextSeq]_vars

\* The first failure of payment intent pi_1 of user 1 has been handled: its
\* row, its mail and its log are there, and no request is in flight.
InitTracked ==
  /\ users = InitUsers
  /\ emailTemplates = InitTemplates
  /\ failedPayments = <<NewFailedPayment(1, "pi_1")>>
  /\ dunningLogs = <<[failedPaymentId |-> 1, emailTemplate |-> "first_failure",
                      status |-> "sent"]>>
  /\ sent = <<[failedPaymentId |-> 1, delivered |-> TRUE]>>
  /\ webhookSecret = TRUE
  /\ now = 1
  /\ pc = [p \in Procs |-> "idle"]
  /\ req = [p \in Procs |-> NoReq]
  /\ loc = [p \in Procs |-> NoLoc]
  /\ resp = [p \in Procs |-> 0]
  /\ nreq = 0
  /\ tracked = [i \in PaymentIntents |-> IF i = "pi_1" THEN 1 ELSE 0]

\* The requests that follow a tracked failure, in any interleaving.
SpecTracked == InitTracked /\ [][Next]_vars

\* ------------------------------------- sendDunningEmail: the mail's amount
\* Text is a sequence of one-character strings.
Currencies == {"usd", "eur", "gbp"}

Amounts == 0..MaxAmount

DigitChars == <<"0", "1", "2", "3", "4", "5", "6", "7", "8", "9">>

DigitChar(d) == DigitChars[d + 1]

\* Number::toString of a non-negative integer: its decimal digits.
RECURSIVE NumberToString(_)
NumberToString(n) ==
  IF n < 10 THEN <<DigitChar(n)>>
  ELSE Append(NumberToString(n \div 10), DigitChar(n % 10))

Zeros(k) == [i \in 1..k |-> "0"]

\* (amount / 100).toFixed(2).  Number.prototype.toFixed picks the integer n
\* with n / 100 closest to the number, which is amount itself; it writes the
\* digits of n, pads them with zeros on the left to three digits, and puts
\* the point before the last two.
ToFixed2(amount) ==
  LET m == NumberToString(amount)
      padded == IF Len(m) <= 2 THEN Zeros(3 - Len(m)) \o m ELSE m
      k == Len(padded)
  IN  SubSeq(padded, 1, k - 2) \o <<".">> \o SubSeq(padded, k - 1, k)

\* `$${...}`: the template literal is a dollar sign and the number.
AmountReplacement(payment) == <<"$">> \o ToFixed2(payment.amount)

\* GetSubstitution of String.prototype.replace for a pattern without capture
\* groups: "$$" stands for a dollar sign and "$&" for the matched text; "$"
\* before a digit names a group that does not exist and is copied as it is.
RECURSIVE GetSubstitution(_, _)
GetSubstitution(matched, replacement) ==
  IF replacement = <<>> THEN <<>>
  ELSE IF Len(replacement) >= 2 /\ replacement[1] = "$"
             /\ replacement[2] = "$"
    THEN <<"$">> \o GetSubstitution(matched, SubSeq(replacement, 3,
                                                    Len(replacement)))
  ELSE IF Len(replacement) >= 2 /\ replacement[1] = "$"
             /\ replacement[2] = "&"
    THEN matched \o GetSubstitution(matched, SubSeq(replacement, 3,
                                                    Len(replacement)))
  ELSE <<replacement[1]>> \o GetSubstitution(matched, Tail(replacement))

AmountPlaceholder == <<"{", "{", "a", "m", "o", "u", "n", "t", "}", "}">>

\* What .replace(/\{\{amount\}\}/g, ...) puts in place of {{amount}}.
RenderedAmount(payment) ==
  GetSubstitution(AmountPlaceholder, AmountReplacement(payment))

\* A failed_payments row with the two columns the mail is rendered from.
PricedPayment(userId, pi, amount, currency) ==
  [userId |-> userId, stripePaymentIntentId |-> pi, status |-> "failed",
   attemptCount |-> 1, recoveredAt |-> 0, amount |-> amount,
   currency |-> currency]

RenderRequest ==
  [NoReq EXCEPT !.route = "webhook", !.sig = "valid",
                !.type = "payment_intent.payment_failed", !.pi = "pi_1",
                !.acct = "acct_1", !.receipt = TRUE, !.customer = TRUE]

\* The first failure of a payment of user 1 was inserted, and the notifier
\* found the row and the enabled template: the body is rendered next.
InitRender ==
  /\ users = InitUsers
  /\ emailTemplates = InitTemplates
  /\ \E amount \in Amounts, currency \in Currencies :
       failedPayments = <<PricedPayment(1, "pi_1", amount, currency)>>
  /\ dunningLogs = <<>>
  /\ sent = <<>>
  /\ webhookSecret = TRUE
  /\ now = 1
  /\ pc = [p \in Procs |-> IF p = 1 THEN "sendEmail" ELSE "idle"]
  /\ req = [p \in Procs |-> IF p = 1 THEN RenderRequest ELSE NoReq]
  /\ loc = [p \in Procs |->
             IF p = 1
               THEN [NoLoc EXCEPT !.user = 1, !.email = TRUE, !.fp = 1,
                                  !.row = [id |-> 1, attemptCount |-> 1,
                                           status |-> "failed"]]
               ELSE NoLoc]
  /\ resp = [p \in Procs |-> 0]
  /\ nreq = 1
  /\ tracked = [i \in PaymentIntents |-> IF i = "pi_1" THEN 1 ELSE 0]

\* sendDunningEmail: the body is rendered and handed to the sender, which
\* returns true or false.
RenderAndSend(p) ==
  /\ At(p, "sendEmail")
  /\ \E delivered \in BOOLEAN :
       sent' = Append(sent,
                      [failedPaymentId |-> loc[p].row.id,
                       delivered |-> delivered,
                       amount |->
                         RenderedAmount(failedPayments[loc[p].row.id])])
  /\ GotoWith(p, "insertLog", loc[p])
  /\ UNCHANGED <<tables, webhookSecret, now, req, nreq, tracked>>

NextRender ==
  \E p \in Procs :
    \/ RenderAndSend(p)
    \/ InsertLog(p)
    \/ Release(p)

\* One notification, for every amount and currency a row can hold.
SpecRender == InitRender /\ [][NextRender]_vars

\* ------------------------------------ POST /api/register of server/index.ts
Emails == {"a@example.com", "b@example.com"}

\* A body that insertUserSchema accepts or rejects (a missing or mistyped
\* field), with the email it carries.
RegisterRequests ==
  {[NoReq EXCEPT !.route = "register", !.email = e, !.valid = v] :
     e \in Emails, v \in BOOLEAN}

\* catch (error) { res.status(500).json({ error: 'Registration failed' }) }
RegisterCatch(p, err) == Respond(p, 500, err)

\* The users with an email.
UsersWithEmail(email) == {u \in 1..Len(users) : users[u].email = email}

\* insertUserSchema.parse(req.body) runs before the first await: a body it
\* rejects throws inside the try block.
RegisterReceive(p) ==
  /\ Free(p)
  /\ \E r \in RegisterRequests :
       /\ Accept(p, r)
       /\ IF r.valid
            THEN Park(p, "regFind")
            ELSE /\ pc' = [pc EXCEPT ![p] = "done"]
                 /\ resp' = [resp EXCEPT ![p] = 500]
                 /\ loc' = [loc EXCEPT ![p] =
                              [NoLoc EXCEPT !.error = "validation"]]
  /\ UNCHANGED <<tables, sent, webhookSecret, now, tracked>>

\* users.findFirst by email returned.
RegFind(p) ==
  /\ At(p, "regFind")
  /\ \/ RegisterCatch(p, "db")
     \/ IF UsersWithEmail(req[p].email) # {}
          THEN Respond(p, 400, "none")
          ELSE GotoWith(p, "regCreate", loc[p])
  /\ UNCHANGED <<tables, sent, webhookSecret, now, req, nreq, tracked>>

NewUser(email) ==
  [email |-> email, stripeAccountId |-> "none", subscriptionStatus |-> "trial"]

\* createUser returned: the user is inserted (email is UNIQUE, so the insert
\* of a second user with the email is refused); the session gets the id and
\* the request is answered 201.
RegCreate(p) ==
  /\ At(p, "regCreate")
  /\ \/ /\ RegisterCatch(p, "db")
        /\ UNCHANGED users
     \/ /\ UsersWithEmail(req[p].email) = {}
        /\ users' = Append(users, NewUser(req[p].email))
        /\ RespondWith(p, 201, "none",
                       [loc[p] EXCEPT !.user = Len(users) + 1])
  /\ UNCHANGED <<emailTemplates, failedPayments, dunningLogs, sent,
                 webhookSecret, now, req, nreq, tracked>>

InitRegister ==
  /\ users = <<>>
  /\ emailTemplates = {}
  /\ failedPayments = <<>>
  /\ dunningLogs = <<>>
  /\ sent = <<>>
  /\ webhookSecret \in BOOLEAN
  /\ now = 1
  /\ pc = [p \in Procs |-> "idle"]
  /\ req = [p \in Procs |-> NoReq]
  /\ loc = [p \in Procs |-> NoLoc]
  /\ resp = [p \in Procs |-> 0]
  /\ nreq = 0
  /\ tracked = [i \in PaymentIntents |-> 0]

NextRegister ==
  \E p \in Procs :
    \/ RegisterReceive(p)
    \/ RegFind(p)
    \/ RegCreate(p)
    \/ Release(p)

\* Registrations on an empty users table.
SpecRegister == InitRegister /\ [][NextRegister]_vars

\* ------------------------------------------------------------- the claims
\* The request slot p holds a payment_intent.payment_failed delivery that
\* passed the signature check.
FailedDelivery(p) ==
  /\ req[p].route = "webhook"
  /\ req[p].type = "payment_intent.payment_failed"
  /\ req[p].sig = "valid" /\ webhookSecret

\* The request slot p has answered 200 to such a delivery.
FailedDeliveryDone(p) ==
  FailedDelivery(p) /\ pc[p] = "done" /\ resp[p] = 200

LogsOf(fp) ==
  {i \in 1..Len(dunningLogs) : dunningLogs[i].failedPaymentId = fp}

SentFor(fp) ==
  {i \in 1..Len(sent) : sent[i].failedPaymentId = fp}

\* C1: in every reachable state, whatever the interleaving of the webhook
\* deliveries, no payment intent has more than one FailedPayment row.
C1_OneRowPerIntent ==
  \A i \in PaymentIntents : Cardinality(RowsOfIntent(i)) <= 1

\* The case of C2: the delivery was processed without error, its payment
\* intent had no row before it (no row but the one it inserted, if any),
\* the owning user and the customer email were resolved, and the user has an
\* enabled first_failure template.
C2_Case(p) ==
  /\ FailedDeliveryDone(p)
  /\ RowsOfIntent(req[p].pi) \ {loc[p].fp} = {}
  /\ loc[p].user # 0
  /\ loc[p].email
  /\ \E t \in emailTemplates :
       t.userId = loc[p].user /\ t.type = "first_failure" /\ t.isEnabled

C2_Result(p) ==
  /\ loc[p].fp \in 1..Len(failedPayments)
  /\ RowsOfIntent(req[p].pi) = {loc[p].fp}
  /\ failedPayments[loc[p].fp].status = "failed"
  /\ failedPayments[loc[p].fp].attemptCount = 1
  /\ failedPayments[loc[p].fp].userId = loc[p].user
  /\ Cardinality(LogsOf(loc[p].fp)) = 1

Resumes(p) == pc[p] \notin {"idle", "done"} /\ pc'[p] # pc[p]

\* The case of C3: the handler of a payment_failed delivery whose payment
\* intent already has a row, inserted by an earlier delivery, takes a step.
C3_Step(p) ==
  /\ FailedDelivery(p)
  /\ Resumes(p)
  /\ loc[p].fp = 0
  /\ RowsOfIntent(req[p].pi) # {}

C3_Effect(p) ==
  /\ Len(failedPayments') = Len(failedPayments)
  /\ dunningLogs' = dunningLogs
  /\ sent' = sent
  /\ pc'[p] \notin {"insertFailed", "sendEmail", "insertLog"}
  \* the delivery that is answered 200 with user and email resolved is
  \* answered by the update, which adds one to the count
  /\ pc'[p] = "done" /\ resp'[p] = 200 /\ loc'[p].email =>
       /\ pc[p] = "updateAttempt"
       /\ \A i \in RowsOfIntent(req[p].pi) :
            failedPayments'[i] =
              [failedPayments[i] EXCEPT !.attemptCount = @ + 1]

\* C3: when requests are handled one after the other, a payment_failed
\* delivery for a payment intent that already has a row creates no row,
\* appends no DunningLog and does not call the Notification Sender, and when
\* it is answered 200 the row's attemptCount is one more than before (2 after
\* the first delivery's 1).
C3_RedeliveryIncrementsOnly ==
  [][\A p \in Procs : C3_Step(p) => C3_Effect(p)]_vars

C3_Witness ==
  \E p \in Procs :
    /\ FailedDeliveryDone(p)
    /\ loc[p].fp = 0
    /\ loc[p].row.id # 0
    /\ loc[p].row.attemptCount = 1
    /\ failedPayments[loc[p].row.id].attemptCount = 2
    /\ RowsOfIntent(req[p].pi) = {loc[p].row.id}

\* A payment_failed delivery of payment intent i is being handled.
InFlight(i) ==
  \E p \in Procs : FailedDelivery(p) /\ req[p].pi = i /\ pc[p] # "done"

\* C4: once the payment_failed deliveries of a payment intent have all
\* completed, in any interleaving, the attemptCount of its row equals the
\* number of deliveries that were tracked.
C4_NoLostIncrement ==
  \A i \in PaymentIntents :
    ~InFlight(i) /\ Cardinality(RowsOfIntent(i)) = 1 =>
      \A r \in RowsOfIntent(i) : failedPayments[r].attemptCount = tracked[i]

\* The handler of a verified payment_intent.succeeded event.
SucceededDelivery(p) ==
  /\ req[p].route = "webhook"
  /\ req[p].type = "payment_intent.succeeded"
  /\ req[p].sig = "valid" /\ webhookSecret

C5_Effect(p) ==
  LET rows == RowsOfIntent(req[p].pi) IN
  /\ Len(failedPayments') = Len(failedPayments)
  \* a repeated event: nothing changes
  /\ (\A i \in rows : failedPayments[i].status = "recovered") =>
       failedPayments' = failedPayments
  \* the event for a failed row, answered 200: recovered and stamped
  /\ pc'[p] = "done" /\ resp'[p] = 200 =>
       \A i \in rows :
         /\ failedPayments'[i].status = "recovered"
         /\ failedPayments'[i].recoveredAt # 0
         /\ failedPayments[i].status = "failed" =>
              /\ failedPayments[i].recoveredAt = 0
              /\ failedPayments'[i].recoveredAt = loc[p].date
              /\ failedPayments'[i].attemptCount = failedPayments[i].attemptCount

\* C5: when requests are handled one after the other, a verified
\* payment_intent.succeeded event answered 200 leaves the row of its payment
\* intent recovered with recoveredAt set (set by this event when the row was
\* failed), and an event for a row that is already recovered changes no
\* FailedPayment: status stays recovered and recoveredAt keeps its value.
C5_SucceededRecoversOnce ==
  [][\A p \in Procs : SucceededDelivery(p) /\ Resumes(p) => C5_Effect(p)]_vars

C5_Witness ==
  \E p \in Procs :
    /\ SucceededDelivery(p) /\ pc[p] = "done" /\ resp[p] = 200
    /\ loc[p].row.id # 0
    /\ loc[p].row.status = "recovered"
    /\ failedPayments[loc[p].row.id].status = "recovered"
    /\ failedPayments[loc[p].row.id].recoveredAt # 0

\* C6: when requests are handled one after the other, a recovery-endpoint
\* call on a record that is already recovered leaves every FailedPayment,
\* recoveredAt included, unchanged.
C6_RecoverAgainChangesNothing ==
  [][\A p \in Procs :
       /\ req[p].route = "recover"
       /\ Resumes(p)
       /\ req[p].id \in 1..Len(failedPayments)
       /\ failedPayments[req[p].id].status = "recovered"
       => failedPayments' = failedPayments]_vars

\* C7: in any interleaving of the recovery endpoint and the succeeded
\* webhook, recoveredAt, once set, is never written again.
C7_RecoveredAtWrittenOnce ==
  [][\A i \in 1..Len(failedPayments) :
       failedPayments[i].recoveredAt # 0 =>
         failedPayments'[i].recoveredAt = failedPayments[i].recoveredAt]_vars

\* A webhook request (of either webhook handler) whose signature header is
\* missing or does not verify.
Unverified(r) ==
  /\ r.route \in {"webhook", "subhook"}
  /\ r.sig \in {"missing", "invalid"} \/ ~webhookSecret

\* C8: a webhook request whose signature header is missing or fails
\* verification is answered 400 at once, and receiving it changes no row of
\* any table and calls the Notification Sender not at all.
C8_InvalidSignatureMutatesNothing ==
  [][\A p \in Procs :
       pc[p] = "idle" /\ pc'[p] # "idle" /\ Unverified(req'[p]) =>
         /\ pc'[p] = "done"
         /\ resp'[p] = 400
         /\ UNCHANGED <<users, emailTemplates, failedPayments, dunningLogs,
                        sent>>]_vars

C8_Witness ==
  \E p \in Procs :
    /\ pc[p] = "done" /\ resp[p] = 400
    /\ webhookSecret
    /\ req[p].route = "webhook"
    /\ req[p].sig = "invalid"
    /\ req[p].type = "payment_intent.payment_failed"
    /\ req[p].acct = "acct_1"
    /\ failedPayments = <<>>

\* A webhook request that passed the signature check and was answered.
VerifiedDone(p) ==
  /\ pc[p] = "done"
  /\ req[p].route \in {"webhook", "subhook"}
  /\ req[p].sig = "valid" /\ webhookSecret

C10_Case(p) ==
  /\ FailedDeliveryDone(p)
  /\ RowsOfIntent(req[p].pi) \ {loc[p].fp} = {}
  /\ loc[p].user # 0
  /\ loc[p].email
  /\ ~\E t \in emailTemplates :
        t.userId = loc[p].user /\ t.type = "first_failure" /\ t.isEnabled

C10_Result(p) ==
  /\ loc[p].fp \in 1..Len(failedPayments)
  /\ RowsOfIntent(req[p].pi) = {loc[p].fp}
  /\ LogsOf(loc[p].fp) = {}
  /\ SentFor(loc[p].fp) = {}

\* C10: a new payment_failed event of a user without an enabled
\* first_failure template, processed without error, has created the
\* FailedPayment row, no DunningLog row for it, and the Notification Sender
\* was not called for it.
C10_NoTemplateNoNotification ==
  \A p \in Procs : C10_Case(p) => C10_Result(p)

C10_Witness ==
  \E p \in Procs : C10_Case(p) /\ C10_Result(p)

\* The handler in slot p runs: it receives its request or resumes.
Runs(p) == pc[p] # "done" /\ pc'[p] # pc[p]

\* The request r passed the signature check of the routes.ts webhook.
VerifiedEvent(r) ==
  r.route = "webhook" /\ r.sig = "valid" /\ webhookSecret

\* The events C11 lets change stored state, with the locals l of their
\* handler: a payment_failed event of a known account whose customer email
\* was resolved, and a succeeded event whose row was read with status failed.
C11_MayChange(r, l) ==
  \/ /\ r.type = "payment_intent.payment_failed"
     /\ \E u \in UserIds : users[u].stripeAccountId = r.acct
     /\ l.email
  \/ /\ r.type = "payment_intent.succeeded"
     /\ l.row.status = "failed"

C11_Frame(p) ==
  \/ C11_MayChange(req[p], loc[p])
  \/ UNCHANGED <<users, emailTemplates, failedPayments, dunningLogs, sent>>

BothProcessorCalls == <<"customers.update", "paymentIntents.confirm">>

\* C12: a step of the recovery endpoint changes a FailedPayment only after
\* customers.update and then paymentIntents.confirm were issued and returned,
\* only to mark the requested row recovered, and the step that answers a
\* failed processor call answers 500 and changes no FailedPayment.
C12_RecoveredOnlyAfterBothCalls ==
  [][\A p \in Procs :
       Runs(p) /\ req'[p].route = "recover" =>
         /\ failedPayments' # failedPayments =>
              /\ pc[p] = "recDbUpdate"
              /\ loc[p].calls = BothProcessorCalls
              /\ resp'[p] = 200
              /\ failedPayments'[req[p].id].status = "recovered"
         /\ resp'[p] = 200 => loc[p].calls = BothProcessorCalls
         /\ pc[p] \in {"recCustUpdate", "recConfirm"} /\ pc'[p] = "done" =>
              /\ resp'[p] = 500
              /\ UNCHANGED failedPayments]_vars

\* The confirm call failed after the customer update went through: 500, and
\* the row is still failed with no recovery time.
C12_Witness ==
  \E p \in Procs :
    /\ pc[p] = "done" /\ req[p].route = "recover" /\ resp[p] = 500
    /\ loc[p].error = "stripe"
    /\ loc[p].calls = BothProcessorCalls
    /\ failedPayments[req[p].id].status = "failed"
    /\ failedPayments[req[p].id].recoveredAt = 0

\* ------------------------------------------------------------------ C13
\* C13: when the recovery endpoint's lookup returns and the id matches no
\* FailedPayment, the call is answered 404, has issued no processor call and
\* changes no row; a recovery handler that issued a processor call had found
\* its row.
C13_NotFound ==
  [][\A p \in Procs :
       Runs(p) /\ req'[p].route = "recover" =>
         /\ loc'[p].calls # <<>> => req[p].id \in 1..Len(failedPayments)
         /\ /\ pc[p] = "recFind"
            /\ req[p].id \notin 1..Len(failedPayments)
            /\ loc'[p].error = "none"
            => /\ pc'[p] = "done" /\ resp'[p] = 404
               /\ loc'[p].calls = <<>>
               /\ UNCHANGED <<tables, sent>>]_vars

\* A call for id 2 was answered 404 while only row 1 exists.
C13_Witness ==
  \E p \in Procs :
    /\ pc[p] = "done" /\ req[p].route = "recover" /\ resp[p] = 404
    /\ req[p].id = 2 /\ Len(failedPayments) = 1
    /\ loc[p].calls = <<>>

\* ------------------------------------------------------------------ C14
\* C14: the sender never throws: the step in which it returns records one
\* delivery attempt for the row, answers nothing and leads to the insert of
\* the log; and the insert, when it goes through, appends exactly one log
\* with status "sent" for that row, whatever the sender returned.
C14_LogWhateverTheDelivery ==
  [][\A p \in Procs :
       Runs(p) =>
         /\ pc[p] = "sendEmail" =>
              /\ pc'[p] = "insertLog"
              /\ loc'[p].error = "none"
              /\ Len(sent') = Len(sent) + 1
              /\ sent'[Len(sent')].failedPaymentId = loc[p].row.id
              /\ SubSeq(sent', 1, Len(sent)) = sent
              /\ UNCHANGED dunningLogs
         /\ pc[p] = "insertLog" /\ loc'[p].error = "none" =>
              /\ Len(dunningLogs') = Len(dunningLogs) + 1
              /\ SubSeq(dunningLogs', 1, Len(dunningLogs)) = dunningLogs
              /\ dunningLogs'[Len(dunningLogs')].failedPaymentId
                   = loc[p].row.id
              /\ dunningLogs'[Len(dunningLogs')].status = "sent"
              /\ resp'[p] = 200]_vars

\* The delivery failed (the sender returned false) and the log of the row
\* nevertheless says "sent".
C14_Witness ==
  \E p \in Procs :
    /\ FailedDeliveryDone(p) /\ resp[p] = 200 /\ loc[p].fp # 0
    /\ \E i \in 1..Len(sent) :
         sent[i] = [failedPaymentId |-> loc[p].fp, delivered |-> FALSE]
    /\ \E j \in 1..Len(dunningLogs) :
         /\ dunningLogs[j].failedPaymentId = loc[p].fp
         /\ dunningLogs[j].status = "sent"

\* ------------------------------------------------------------------ C15
CurrencySymbol(currency) ==
  CASE currency = "usd" -> "$"
    [] currency = "eur" -> "EUR"
    [] currency = "gbp" -> "GBP"

\* The amount as the specification writes it: the symbol, amount div 100, a
\* point, and amount mod 100 as two digits.
FormattedAmount(payment) ==
  <<CurrencySymbol(payment.currency)>>
    \o NumberToString(payment.amount \div 100) \o <<".">>
    \o <<DigitChar((payment.amount % 100) \div 10),
         DigitChar(payment.amount % 10)>>

\* C15: every mail shows, in place of {{amount}}, the currency symbol of the
\* row's currency and the amount in major units with two decimals.
C15_AmountInRowCurrency ==
  \A i \in 1..Len(sent) :
    sent[i].amount = FormattedAmount(failedPayments[sent[i].failedPaymentId])

\* The number itself is right for every amount, and so is the whole text for
\* a row in dollars.
C15_DigitsAndDollars ==
  \A i \in 1..Len(sent) :
    LET payment == failedPayments[sent[i].failedPaymentId]
    IN  /\ Tail(sent[i].amount) = Tail(FormattedAmount(payment))
        /\ payment.currency = "usd" =>
             sent[i].amount = FormattedAmount(payment)

C15_Example ==
  \E i \in 1..Len(sent) :
    /\ failedPayments[sent[i].failedPaymentId].amount = 4999
    /\ failedPayments[sent[i].failedPaymentId].currency = "usd"
    /\ sent[i].amount = <<"$", "4", "9", ".", "9", "9">>

\* ------------------------------------------------------------------ C16
\* C16: a registration whose body fails validation is answered with a 4xx,
\* creates no user and sets no session; a registration whose email the
\* lookup finds registered is answered 400 and creates no user.
C16_InvalidRegistrationClientError ==
  [][\A p \in Procs :
       Runs(p) /\ req'[p].route = "register" /\ pc'[p] = "done" =>
         /\ ~req'[p].valid =>
              /\ resp'[p] \in 400..499
              /\ loc'[p].user = 0
              /\ UNCHANGED users
         /\ /\ pc[p] = "regFind"
            /\ UsersWithEmail(req[p].email) # {}
            /\ loc'[p].error = "none"
            => /\ resp'[p] = 400
               /\ UNCHANGED users]_vars

\* What the code does keep: an invalid body creates no user and no session,
\* a registered email is refused with 400, and no two users share an email.
C16_NoUserFromInvalidOrDuplicate ==
  [][/\ \A p \in Procs :
          Runs(p) /\ req'[p].route = "register" /\ pc'[p] = "done" =>
            /\ ~req'[p].valid => loc'[p].user = 0 /\ UNCHANGED users
            /\ /\ pc[p] = "regFind"
               /\ UsersWithEmail(req[p].email) # {}
               /\ loc'[p].error = "none"
               => /\ resp'[p] = 400
                  /\ UNCHANGED users
     /\ \A e \in Emails : Cardinality({u \in 1..Len(users') :
                                         users'[u].email = e}) <= 1]_vars

\* ------------------------------------------------------------------ C17
\* C17: the users table changes only in a step of the handler of a verified
\* checkout.session.completed event whose metadata carries a non-zero user
\* id, and the change is that this user's subscriptionStatus is "active";
\* no other step, event type or user id changes a user.
C17_SubscriptionOnlyByCheckout ==
  [][users' # users =>
       \E p \in Procs :
         /\ Runs(p) /\ pc[p] = "subUpdate"
         /\ req[p].route = "subhook"
         /\ req[p].sig = "valid" /\ webhookSecret
         /\ req[p].type = "checkout.session.completed"
         /\ req[p].userId # 0
         /\ users' = [u \in DOMAIN users |->
                        IF u = req[p].userId
                          THEN [users[u] EXCEPT
                                  !.subscriptionStatus = "active"]
                          ELSE users[u]]]_vars

\* User 1 was activated by its checkout event; user 2 is still on trial.
C17_Witness ==
  /\ users[1].subscriptionStatus = "active"
  /\ users[2].subscriptionStatus = "trial"
  /\ \E p \in Procs :
       /\ pc[p] = "done" /\ req[p].route = "subhook" /\ resp[p] = 200
       /\ req[p].userId = 1

\* ------------------------------------------------------------------ C18
\* C18: a handler of the webhook or of the recovery endpoint in which an
\* external call threw has answered, with 500, and a handler that is not
\* waiting for an external call has answered with one of its route's codes:
\* no request is left without a response.
C18_ErrorsAnswered ==
  \A p \in Procs :
    /\ req[p].route \in {"webhook", "recover"} /\ loc[p].error # "none" =>
         pc[p] = "done" /\ resp[p] = 500
    /\ req[p].route = "webhook" /\ pc[p] = "done" =>
         resp[p] \in {400, 200, 500}
    /\ req[p].route = "recover" /\ pc[p] = "done" =>
         resp[p] \in {404, 200, 500}
    /\ pc[p] # "done" => resp[p] = 0

\* Every error of the webhook handler, and every error of the recovery
\* endpoint after its lookup, is answered.
C18_ErrorsInsideTryAnswered ==
  \A p \in Procs :
    /\ req[p].route = "webhook" /\ loc[p].error # "none" =>
         pc[p] = "done" /\ resp[p] = 500
    /\ req[p].route = "recover" /\ loc[p].error # "none"
         /\ loc[p].calls # <<>> =>
         pc[p] = "done" /\ resp[p] = 500
    /\ pc[p] # "done" => resp[p] = 0

\* ------------------------------------------------------------------ C19
\* Every row has at most one log and at most one mail, and every log is the
\* log of a row.
AtMostOneNotification ==
  /\ \A fp \in 1..Len(failedPayments) :
       /\ Cardinality(LogsOf(fp)) <= 1
       /\ Cardinality(SentFor(fp)) <= 1
  /\ \A i \in 1..Len(dunningLogs) :
       dunningLogs[i].failedPaymentId \in 1..Len(failedPayments)

\* The handler in slot p handles a payment_failed event and has inserted the
\* row of its payment intent.
InsertedByDelivery(p) ==
  /\ FailedDelivery(p)
  /\ loc[p].fp \in 1..Len(failedPayments)
  /\ failedPayments[loc[p].fp].stripePaymentIntentId = req[p].pi

\* C19: a mail is sent and a log appended only in a step of the handler of a
\* payment_failed event that inserted a row, and for that row; so every row
\* keeps at most one log, every log references a row, and the logs written
\* stay as they are.  No step of a succeeded event or of the recovery
\* endpoint sends or logs anything.
C19_NotificationOnlyOnInsert ==
  [][/\ AtMostOneNotification'
     /\ Len(dunningLogs') >= Len(dunningLogs)
     /\ SubSeq(dunningLogs', 1, Len(dunningLogs)) = dunningLogs
     /\ Len(sent') >= Len(sent)
     /\ SubSeq(sent', 1, Len(sent)) = sent
     /\ sent' # sent =>
          \E p \in Procs :
            /\ Runs(p) /\ InsertedByDelivery(p)
            /\ sent'[Len(sent')].failedPaymentId = loc[p].fp
     /\ dunningLogs' # dunningLogs =>
          \E p \in Procs :
            /\ Runs(p) /\ InsertedByDelivery(p)
            /\ dunningLogs'[Len(dunningLogs')].failedPaymentId = loc[p].fp]_vars

\* A row whose failure was delivered twice has one mail and one log.
C19_Witness ==
  \E fp \in 1..Len(failedPayments) :
    /\ failedPayments[fp].attemptCount = 2
    /\ Cardinality(LogsOf(fp)) = 1
    /\ Cardinality(SentFor(fp)) = 1
    /\ \E p \in Procs : FailedDeliveryDone(p) /\ loc[p].row.id = fp
                          /\ loc[p].fp = 0

\* ------------------------------------------------------------------ C20
\* No row is deleted, no row changes its identity, and a recovered row stays
\* recovered with the recovery time a payment_failed event found.
C20_StatusKept ==
  /\ Len(failedPayments') >= Len(failedPayments)
  /\ \A i \in 1..Len(failedPayments) :
       /\ failedPayments'[i].stripePaymentIntentId
            = failedPayments[i].stripePaymentIntentId
       /\ failedPayments'[i].userId = failedPayments[i].userId
       /\ failedPayments[i].status = "recovered" =>
            failedPayments'[i].status = "recovered"
  /\ \A p \in Procs :
       /\ Runs(p) /\ FailedDelivery(p) /\ pc[p] = "updateAttempt"
       /\ failedPayments[loc[p].row.id].status = "recovered"
       => /\ Len(failedPayments') = Len(failedPayments)
          /\ \A i \in 1..Len(failedPayments) :
               /\ failedPayments'[i].status = failedPayments[i].status
               /\ failedPayments'[i].recoveredAt = failedPayments[i].recoveredAt
               /\ i # loc[p].row.id => failedPayments'[i] = failedPayments[i]
          /\ UNCHANGED <<dunningLogs, sent>>

\* C20: no row is deleted and none goes from recovered back to failed; a
\* payment_failed event for a recovered row changes only that row's
\* attemptCount, and no attemptCount ever decreases.
C20_NeverBackNeverDown ==
  [][/\ C20_StatusKept
     /\ \A i \in 1..Len(failedPayments) :
          failedPayments'[i].attemptCount >= failedPayments[i].attemptCount]_vars

\* The part of C20 that no interleaving breaks.
C20_NeverBack == [][C20_StatusKept]_vars

\* A payment_failed event was handled for a row that was recovered: the row
\* is still recovered and its count went up.
C20_RecoveredRowCounted ==
  \E p \in Procs :
    /\ FailedDeliveryDone(p) /\ loc[p].row.status = "recovered"
    /\ failedPayments[loc[p].row.id].status = "recovered"
    /\ failedPayments[loc[p].row.id].attemptCount = 2

\* ------------------------------------------------------------------ C21
\* recoveredAt 0 stands for NULL.
RecoveredIffTimestamp ==
  \A i \in 1..Len(failedPayments) :
    failedPayments[i].status = "recovered" <=> failedPayments[i].recoveredAt # 0

\* C21: after every step each row is recovered exactly when its recoveredAt
\* is set; a row is inserted failed and without recoveredAt; and a step that
\* writes the status or recoveredAt of a row leaves it recovered with
\* recoveredAt set.
C21_RecoveredIffTimestamp ==
  [][/\ RecoveredIffTimestamp'
     /\ \A i \in 1..Len(failedPayments') :
          IF i > Len(failedPayments)
            THEN /\ failedPayments'[i].status = "failed"
                 /\ failedPayments'[i].recoveredAt = 0
          ELSE \/ /\ failedPayments'[i].status = failedPayments[i].status
                  /\ failedPayments'[i].recoveredAt
                       = failedPayments[i].recoveredAt
               \/ /\ failedPayments'[i].status = "recovered"
                  /\ failedPayments'[i].recoveredAt # 0]_vars

\* One row was recovered, at the time the clock showed, and the row of the
\* other payment intent is still failed without a recovery time.
C21_Witness ==
  \E i, j \in 1..Len(failedPayments) :
    /\ failedPayments[i].status = "recovered"
    /\ failedPayments[i].recoveredAt = 2
    /\ failedPayments[j].status = "failed"
    /\ failedPayments[j].recoveredAt = 0

\* ------------------------------------------------------------------ C22
\* The handler in slot p fails in this step, after it inserted its row.
FailsAfterInsert(p) ==
  /\ Runs(p) /\ FailedDelivery(p) /\ loc[p].fp # 0
  /\ pc'[p] = "done" /\ loc'[p].error # "none"

\* The row fp has no log and no handler is on its way to write one: the
\* handler that inserted it has ended.
Untended(fp) ==
  /\ fp \in 1..Len(failedPayments)
  /\ LogsOf(fp) = {}
  /\ \A p \in Procs : loc[p].fp = fp => pc[p] = "done"

\* The inserted row persists without a log when its handler fails.
C22_RowKeptWithoutLog(p) ==
  /\ resp'[p] = 500
  /\ loc[p].fp \in 1..Len(failedPayments')
  /\ failedPayments'[loc[p].fp] = failedPayments[loc[p].fp]
  /\ LogsOf(loc[p].fp)' = {}
  /\ Untended(loc[p].fp)'

\* An untended row stays untended: no mail and no log is produced for it,
\* and a payment_failed event that finds a row of its payment intent goes
\* on to increment the count, which sends and logs nothing.
C22_NeverNotifiedLater ==
  /\ \A fp \in 1..Len(failedPayments) :
       Untended(fp) =>
         /\ Untended(fp)'
         /\ SentFor(fp)' = SentFor(fp)
         /\ failedPayments'[fp].stripePaymentIntentId
              = failedPayments[fp].stripePaymentIntentId
  /\ \A p \in Procs :
       Runs(p) /\ FailedDelivery(p) =>
         /\ /\ pc[p] = "findExisting"
            /\ RowsOfIntent(req[p].pi) # {}
            /\ loc'[p].error = "none"
            => /\ pc'[p] = "updateAttempt"
               /\ loc'[p].row.id \in RowsOfIntent(req[p].pi)
               /\ loc'[p].fp = 0
         /\ pc[p] = "updateAttempt" =>
              /\ pc'[p] = "done"
              /\ Len(failedPayments') = Len(failedPayments)
              /\ UNCHANGED <<dunningLogs, sent>>

\* C22 as stated: when the handler of a new payment_failed event fails after
\* its insert, the row persists, no mail and no log exists for it, and none
\* is produced later: a redelivery takes the path of a tracked row.
C22_NoMailNoLogEver ==
  [][/\ \A p \in Procs :
          FailsAfterInsert(p) =>
            /\ C22_RowKeptWithoutLog(p)
            /\ SentFor(loc[p].fp)' = {}
     /\ C22_NeverNotifiedLater]_vars

\* C22 as amended: the same, but a handler that fails at the insert of the
\* log has already handed its mail to the sender; only a handler that fails
\* at the lookup of the row or of the template has sent nothing.
C22_NoLogEver ==
  [][/\ \A p \in Procs :
          FailsAfterInsert(p) =>
            /\ C22_RowKeptWithoutLog(p)
            /\ pc[p] \in {"dunFindPayment", "dunFindTemplate", "insertLog"}
            /\ pc[p] = "insertLog" =>
                 Cardinality(SentFor(loc[p].fp)') = 1
            /\ pc[p] # "insertLog" => SentFor(loc[p].fp)' = {}
     /\ C22_NeverNotifiedLater]_vars

\* The failure of a payment of user 1, who has an enabled template, was
\* delivered twice and nothing else is in flight: the row counts two
\* attempts and has neither mail nor log.
C22_Witness ==
  \E fp \in 1..Len(failedPayments) :
    /\ failedPayments[fp].userId = 1
    /\ failedPayments[fp].attemptCount = 2
    /\ Untended(fp) /\ SentFor(fp) = {}
    /\ \E p \in Procs :
         /\ FailedDeliveryDone(p) /\ loc[p].row.id = fp /\ loc[p].fp = 0
         /\ \A q \in Procs \ {p} : pc[q] = "idle"
    /\ Len(failedPayments) = 1 /\ dunningLogs = <<>> /\ sent = <<>>

====
